---- MODULE Spec2Model ----
(***************************************************************************)
(* Model of src/main.py: a FastAPI backend that proxies a Firestore        *)
(* product catalog, the PayPal order API, an exchange-rate API and the     *)
(* Gemini text API.  Every route handler is translated from its code; the  *)
(* providers are the environment and answer nondeterministically.          *)
(***************************************************************************)
EXTENDS Integers, Sequences, FiniteSets, Bags, TLC

(***************************************************************************)
(* Binary floating point.  Python's float is an IEEE-754 double: a 53-bit  *)
(* significand, every operation correctly rounded, ties to even.  TLC's    *)
(* integers are 32 bits wide, so a significand is kept as a little-endian  *)
(* sequence of 15-bit limbs and the arithmetic is done limb by limb.       *)
(* Magnitudes stay far from overflow and from the subnormal range.         *)
(***************************************************************************)

\* Width of a double's significand (sys.float_info.mant_dig).
DBL_MANT_DIG == 53

LimbBits == 5 * 3
Base == 2 ^ LimbBits

RECURSIVE Norm(_)
\* Drop the high-order zero limbs.
Norm(a) ==
    IF a = <<>> THEN <<>>
    ELSE IF a[Len(a)] = 0 THEN Norm(SubSeq(a, 1, Len(a) - 1))
    ELSE a

BigOf(n) ==
    IF n = 0 THEN <<>>
    ELSE IF n < Base THEN <<n>>
    ELSE IF n < Base * Base THEN <<n % Base, n \div Base>>
    ELSE <<n % Base, (n \div Base) % Base, n \div (Base * Base)>>

RECURSIVE BigToInt(_)
\* Only used on values known to fit a machine integer.
BigToInt(a) == IF a = <<>> THEN 0 ELSE Head(a) + Base * BigToInt(Tail(a))

RECURSIVE AddC(_, _, _)
AddC(a, b, c) ==
    IF a = <<>> /\ b = <<>> THEN (IF c = 0 THEN <<>> ELSE <<c>>)
    ELSE LET x == (IF a = <<>> THEN 0 ELSE Head(a))
                  + (IF b = <<>> THEN 0 ELSE Head(b)) + c
         IN  <<x % Base>> \o AddC(IF a = <<>> THEN <<>> ELSE Tail(a),
                                  IF b = <<>> THEN <<>> ELSE Tail(b),
                                  x \div Base)

BigAdd(a, b) == AddC(a, b, 0)

RECURSIVE MulC(_, _, _)
MulC(a, n, c) ==
    IF a = <<>> THEN (IF c = 0 THEN <<>> ELSE <<c>>)
    ELSE LET x == Head(a) * n + c
         IN  <<x % Base>> \o MulC(Tail(a), n, x \div Base)

\* a * n for 0 <= n <= Base.
BigMulSmall(a, n) == Norm(MulC(a, n, 0))

RECURSIVE DivC(_, _)
DivC(a, d) ==
    IF a = <<>> THEN [q |-> <<>>, r |-> 0]
    ELSE LET hi == DivC(Tail(a), d)
             x  == hi.r * Base + Head(a)
         IN  [q |-> <<x \div d>> \o hi.q, r |-> x % d]

\* Quotient and remainder of a by d, for 0 < d <= Base.
BigDivSmall(a, d) == LET qr == DivC(a, d) IN [q |-> Norm(qr.q), r |-> qr.r]

RECURSIVE BigShl(_, _)
\* a * 2^s.
BigShl(a, s) ==
    IF a = <<>> \/ s = 0 THEN a
    ELSE IF s >= LimbBits THEN <<0>> \o BigShl(a, s - LimbBits)
    ELSE BigMulSmall(a, 2 ^ s)

RECURSIVE BigShr(_, _)
\* floor(a / 2^s), and whether any of the s bits shifted out was set.
BigShr(a, s) ==
    IF s = 0 THEN [q |-> a, lost |-> FALSE]
    ELSE IF a = <<>> THEN [q |-> <<>>, lost |-> FALSE]
    ELSE IF s >= LimbBits
         THEN LET rest == BigShr(Tail(a), s - LimbBits)
              IN  [q |-> rest.q, lost |-> rest.lost \/ Head(a) # 0]
    ELSE LET qr == BigDivSmall(a, 2 ^ s) IN [q |-> qr.q, lost |-> qr.r # 0]

RECURSIVE SmallBitLen(_)
SmallBitLen(n) == IF n = 0 THEN 0 ELSE 1 + SmallBitLen(n \div 2)

BitLen(a) ==
    IF a = <<>> THEN 0 ELSE LimbBits * (Len(a) - 1) + SmallBitLen(a[Len(a)])

BigOdd(a) == a # <<>> /\ Head(a) % 2 = 1

\* floor(a / 2^s) rounded to nearest, ties to even; sticky says that the
\* exact value lies strictly above a.
RoundShr(a, s, sticky) ==
    IF s = 0 THEN a
    ELSE LET upper == BigShr(a, s - 1)
             kept  == BigShr(upper.q, 1).q
             half  == BigOdd(upper.q)
             below == sticky \/ upper.lost
         IN  IF half /\ (below \/ BigOdd(kept)) THEN BigAdd(kept, <<1>>) ELSE kept

\* The double nearest to man * 2^exp (+ a little, when sticky).
RoundDouble(man, exp, sticky) ==
    LET drop == BitLen(man) - DBL_MANT_DIG
    IN  IF drop <= 0 THEN [man |-> man, exp |-> exp]
        ELSE [man |-> RoundShr(man, drop, sticky), exp |-> exp + drop]

FloatZero == [man |-> <<>>, exp |-> 0]

\* float(n / 10^scale): the quotient is developed to more than 53 bits and
\* then rounded once, as a correctly rounded string conversion does.
FloatOfDecimal(n, scale) ==
    IF n = 0 THEN FloatZero
    ELSE LET guard == DBL_MANT_DIG + SmallBitLen(10 ^ scale) + 2
             qr    == BigDivSmall(BigShl(BigOf(n), guard), 10 ^ scale)
         IN  RoundDouble(qr.q, 0 - guard, qr.r # 0)

\* x * q for a float x and an int q >= 0 (the int converts exactly).
FloatMulInt(x, q) == RoundDouble(BigMulSmall(x.man, q), x.exp, FALSE)

FloatAdd(x, y) ==
    IF x.man = <<>> THEN y
    ELSE IF y.man = <<>> THEN x
    ELSE LET e == IF x.exp < y.exp THEN x.exp ELSE y.exp
         IN  RoundDouble(BigAdd(BigShl(x.man, x.exp - e), BigShl(y.man, y.exp - e)),
                         e, FALSE)

\* round(x * 100) as the '.2f' conversion rounds: on the exact binary
\* value, ties to even.
FloatToCents(x) ==
    LET p == BigMulSmall(x.man, 100)
    IN  IF x.exp >= 0 THEN BigToInt(BigShl(p, x.exp))
        ELSE BigToInt(RoundShr(p, 0 - x.exp, FALSE))

(***************************************************************************)
(* Text.  A str is a sequence of one-character strings, so that parsing   *)
(* and formatting are computed character by character.  The alphabet below *)
(* has no sign, exponent, blank or underscore and cannot spell inf or nan: *)
(* on it float() accepts exactly digits with at most one point.            *)
(***************************************************************************)

DigitChars == <<"0", "1", "2", "3", "4", "5", "6", "7", "8", "9">>

IsDigit(c) == \E d \in 1..10 : DigitChars[d] = c

DigitValue(c) == (CHOOSE d \in 1..10 : DigitChars[d] = c) - 1

RECURSIVE ScanDecimal(_, _, _, _, _, _)
ScanDecimal(s, i, n, scale, dot, digits) ==
    IF i > Len(s) THEN [ok |-> digits > 0, n |-> n, scale |-> scale]
    ELSE IF IsDigit(s[i])
         THEN ScanDecimal(s, i + 1, 10 * n + DigitValue(s[i]),
                          IF dot THEN scale + 1 ELSE scale, dot, digits + 1)
    ELSE IF s[i] = "." /\ ~dot THEN ScanDecimal(s, i + 1, n, scale, TRUE, digits)
    ELSE [ok |-> FALSE, n |-> 0, scale |-> 0]

\* float(s): [ok |-> FALSE] stands for ValueError.
ParseFloat(s) ==
    LET d == ScanDecimal(s, 1, 0, 0, FALSE, 0)
    IN  IF d.ok THEN [ok |-> TRUE, value |-> FloatOfDecimal(d.n, d.scale)]
        ELSE [ok |-> FALSE, value |-> FloatZero]

RECURSIVE DigitsOf(_)
DigitsOf(n) ==
    IF n < 10 THEN <<DigitChars[n + 1]>>
    ELSE DigitsOf(n \div 10) \o <<DigitChars[(n % 10) + 1]>>

\* A count of cents written with two decimals.
CentsText(c) ==
    DigitsOf(c \div 100) \o <<".">>
        \o <<DigitChars[((c % 100) \div 10) + 1], DigitChars[(c % 10) + 1]>>

\* f"{x:.2f}" for a float x >= 0.
FormatFloat2(x) == CentsText(FloatToCents(x))

(***************************************************************************)
(* What a handler can do: return a value, raise fastapi.HTTPException, or  *)
(* let any other exception escape.                                         *)
(***************************************************************************)

Return(value) ==
    [kind |-> "return", status_code |-> 200, detail |-> <<>>, value |-> value]

\* detail is the text of the f-string, piece by piece.
HTTPException(status_code, detail) ==
    [kind |-> "HTTPException", status_code |-> status_code, detail |-> detail,
     value |-> "HTTPException"]

Raise(exc) ==
    [kind |-> "exception", status_code |-> 0, detail |-> <<>>, value |-> exc]

Call(api, args, answer) == [api |-> api, args |-> args, answer |-> answer]

(***************************************************************************)
(* The providers' answers.  An HTTP exchange either fails in transport     *)
(* (requests raises ConnectionError) or yields a response with a status,   *)
(* a raw text and possibly a JSON object.                                  *)
(***************************************************************************)

NoJSON == [k \in {} |-> ""]

HttpAnswer(status_code, text, json_valid, json) ==
    [exc |-> "", status_code |-> status_code, text |-> text,
     json_valid |-> json_valid, json |-> json]

TransportFailure ==
    [exc |-> "ConnectionError", status_code |-> 0, text |-> "",
     json_valid |-> FALSE, json |-> NoJSON]

\* An error status with the raw text the provider sends along.
ErrorAnswers ==
    {HttpAnswer(401, "{\"error\":\"invalid_client\"}", FALSE, NoJSON),
     HttpAnswer(503, "Service Unavailable", FALSE, NoJSON)}

\* Answers any provider endpoint can give besides its own success body: a
\* transport failure, an error status, an unfollowed 3xx, a 2xx whose body
\* is not JSON.
CommonAnswers ==
    {TransportFailure} \cup ErrorAnswers
        \cup {HttpAnswer(304, "", FALSE, NoJSON), HttpAnswer(200, "<html>", FALSE, NoJSON)}

AccessTokens == {"A21AA-1", "A21AA-2"}

TokenAnswers ==
    CommonAnswers
        \cup {HttpAnswer(200, "", TRUE, [access_token |-> t, token_type |-> "Bearer"]) :
                t \in AccessTokens}
        \cup {HttpAnswer(200, "", TRUE, [scope |-> "openid"])}

OrderAnswers ==
    CommonAnswers \cup {HttpAnswer(201, "", TRUE, [id |-> "5O190127TN", status |-> "CREATED"])}

CaptureAnswers ==
    CommonAnswers \cup {HttpAnswer(201, "", TRUE, [id |-> "5O190127TN", status |-> "COMPLETED"])}

Currencies == {"USD", "EUR"}

\* The provider's rate of each currency, in hundredths.
MarketRate == [c \in Currencies |-> IF c = "USD" THEN 100 ELSE 92]

RateAnswers ==
    CommonAnswers
        \cup {HttpAnswer(200, "", TRUE, [result |-> "success",
                                          rates |-> [c \in listed |-> MarketRate[c]]]) :
                listed \in SUBSET Currencies}
        \cup {HttpAnswer(200, "", TRUE, [result |-> "error"])}

\* Documents of the products collection: the document key and its fields.
Docs == <<[id |-> "p1", data |-> [name |-> "Apple", price |-> "1.20"]],
          [id |-> "p2", data |-> [name |-> "Bread", price |-> "2.50"]]>>

\* query.stream() yields at most limit documents or raises.
StoreAnswers(limit) ==
    {[exc |-> "", docs |-> SubSeq(Docs, 1, n)] : n \in {k \in 0..Len(Docs) : k <= limit}}
        \cup {[exc |-> "ServiceUnavailable", docs |-> <<>>]}

GeminiAnswers ==
    {[exc |-> "", text |-> "Dear customer, ..."], [exc |-> "ResourceExhausted", text |-> ""]}

(***************************************************************************)
(* The handlers.  Each takes the request's parameters and the answer the   *)
(* provider gives to the call it makes, and yields what the handler does   *)
(* (out) and the outbound calls it made (calls).                           *)
(***************************************************************************)

\* Defective variant: only server errors raise.
raise_for_status_5xx_only(answer) == answer.status_code >= 500 /\ answer.status_code < 600

\* requests.Response.raise_for_status: HTTPError for 4xx and 5xx only.
raise_for_status(answer) == answer.status_code >= 400 /\ answer.status_code < 600

TokenCall(answer) ==
    Call("POST /v1/oauth2/token", [grant_type |-> "client_credentials"], answer)

get_paypal_access_token(answer) ==
    [out |-> IF answer.exc # "" THEN Raise(answer.exc)
             ELSE IF raise_for_status(answer)
                  THEN HTTPException(500, <<"Failed to get PayPal token: ", answer.text>>)
             ELSE IF ~answer.json_valid THEN Raise("JSONDecodeError")
             ELSE IF "access_token" \notin DOMAIN answer.json THEN Raise("KeyError")
             ELSE Return(answer.json.access_token),
     calls |-> <<TokenCall(answer)>>]

CaptureCall(order_id, access_token, answer) ==
    Call("POST /v2/checkout/orders/{order_id}/capture",
         [access_token |-> access_token, order_id |-> order_id], answer)

\* Defective variant: the capture is sent a second time after an error status.
capture_paypal_order_retrying(order_id, access_token, answer) ==
    [out |-> IF answer.exc # "" THEN Raise(answer.exc)
             ELSE IF raise_for_status(answer)
                  THEN HTTPException(500, <<"Failed to capture PayPal order: ", answer.text>>)
             ELSE IF ~answer.json_valid THEN Raise("JSONDecodeError")
             ELSE Return(answer.json),
     calls |-> IF answer.exc = "" /\ raise_for_status(answer)
               THEN <<CaptureCall(order_id, access_token, answer),
                      CaptureCall(order_id, access_token, answer)>>
               ELSE <<CaptureCall(order_id, access_token, answer)>>]

\* Lines 95-101, after the token was acquired.
capture_paypal_order(order_id, access_token, answer) ==
    [out |-> IF answer.exc # "" THEN Raise(answer.exc)
             ELSE IF raise_for_status(answer)
                  THEN HTTPException(500, <<"Failed to capture PayPal order: ", answer.text>>)
             ELSE IF ~answer.json_valid THEN Raise("JSONDecodeError")
             ELSE Return(answer.json),
     calls |-> <<CaptureCall(order_id, access_token, answer)>>]

read_root == [out |-> Return([message |-> "Server is running"]), calls |-> <<>>]

ProductsQuery(limit, offset, answer) ==
    Call("firestore.query",
         [collection |-> "products", order_by |-> "name", limit |-> limit, offset |-> offset],
         answer)

\* {"id": doc.id, **doc.to_dict()}: a field named id overrides the key.
Product(doc) == doc.data @@ [id |-> doc.id]

\* Defective variant: the offset skips page pages instead of page - 1.
QueryProducts_offset_by_page(page, page_size, answer) ==
    [out |-> IF answer.exc # ""
             THEN HTTPException(500, <<"Failed to fetch products: ", answer.exc>>)
             ELSE Return([i \in 1..Len(answer.docs) |-> Product(answer.docs[i])]),
     calls |-> <<ProductsQuery(page_size, page * page_size, answer)>>]

\* Lines 112-119: the query and its result.
QueryProducts(page, page_size, answer) ==
    [out |-> IF answer.exc # ""
             THEN HTTPException(500, <<"Failed to fetch products: ", answer.exc>>)
             ELSE Return([i \in 1..Len(answer.docs) |-> Product(answer.docs[i])]),
     calls |-> <<ProductsQuery(page_size, (page - 1) * page_size, answer)>>]

\* Defective variant: the query is made whether or not db is set.
get_products_unguarded(database, page, page_size, answer) ==
    QueryProducts(page, page_size, answer)

get_products(database, page, page_size, answer) ==
    IF database = "None"
    THEN [out |-> HTTPException(500, <<"Database not connected">>), calls |-> <<>>]
    ELSE QueryProducts(page, page_size, answer)

RECURSIVE total_value(_)
\* sum(float(item['price']) * int(item['quantity']) ...), left to right from
\* the int 0, each partial sum rounded; [ok |-> FALSE] stands for the
\* ValueError of float().  (The compensated sum() of CPython 3.12 yields the
\* same double for a cart of at most two lines.)
total_value(cart_items) ==
    IF cart_items = <<>> THEN [ok |-> TRUE, value |-> FloatZero]
    ELSE LET item  == cart_items[Len(cart_items)]
             init  == total_value(SubSeq(cart_items, 1, Len(cart_items) - 1))
             price == ParseFloat(item.price)
         IN  IF init.ok /\ price.ok
             THEN [ok |-> TRUE,
                   value |-> FloatAdd(init.value, FloatMulInt(price.value, item.quantity))]
             ELSE [ok |-> FALSE, value |-> FloatZero]

\* Lines 126-129: the amount of the single purchase unit.
OrderAmount(cart_items) ==
    LET total == total_value(cart_items)
    IN  [ok |-> total.ok, currency_code |-> "USD",
         value |-> IF total.ok THEN FormatFloat2(total.value) ELSE <<>>]

CartItem(name, quantity, price) == [name |-> name, quantity |-> quantity, price |-> price]

CartInputs ==
    { <<>>,
      <<CartItem("A", 2, <<"3", ".", "5", "0">>)>>,
      <<CartItem("A", 1, <<"2", ".", "6", "7", "5">>)>>,
      <<CartItem("A", 1, <<"a", "b", "c">>)>>,
      <<CartItem("A", 3, <<"0", ".", "1", "0">>), CartItem("B", 1, <<"1", "9", ".", "9", "9">>)>> }

\* OrderAmount over the carts above, evaluated once.
OrderAmounts == [c \in CartInputs |-> OrderAmount(c)]

\* Lines 124-139, after the token was acquired.
create_paypal_order(cart_items, access_token, answer) ==
    LET amount == OrderAmounts[cart_items]
    IN  IF ~amount.ok THEN [out |-> Raise("ValueError"), calls |-> <<>>]
        ELSE [out |-> IF answer.exc # "" THEN Raise(answer.exc)
                      ELSE IF raise_for_status(answer)
                           THEN HTTPException(500, <<"Failed to create PayPal order: ",
                                                     answer.text>>)
                      ELSE IF ~answer.json_valid THEN Raise("JSONDecodeError")
                      ELSE Return(answer.json),
              calls |-> <<Call("POST /v2/checkout/orders",
                               [access_token |-> access_token, intent |-> "CAPTURE",
                                currency_code |-> amount.currency_code,
                                value |-> amount.value],
                               answer)>>]

\* Defective variant: a missing target currency is reported as a server error.
LookupRate_missing_as_500(rates, from_currency, to_currency) ==
    IF to_currency \notin DOMAIN rates
    THEN HTTPException(500, <<"Target currency '", to_currency, "' not found.">>)
    ELSE Return([from |-> from_currency, to |-> to_currency, rate |-> rates[to_currency]])

\* Lines 154-156.
LookupRate(rates, from_currency, to_currency) ==
    IF to_currency \notin DOMAIN rates
    THEN HTTPException(404, <<"Target currency '", to_currency, "' not found.">>)
    ELSE Return([from |-> from_currency, to |-> to_currency, rate |-> rates[to_currency]])

\* Lines 149-158: the lookup at the rate provider.
FetchRate(from_currency, to_currency, answer) ==
    [out |-> IF answer.exc # "" THEN Raise(answer.exc)
             ELSE IF raise_for_status(answer)
                  THEN HTTPException(500, <<"Failed to get exchange rate: ", answer.text>>)
             ELSE IF ~answer.json_valid THEN Raise("JSONDecodeError")
             ELSE LookupRate(IF "rates" \in DOMAIN answer.json
                             THEN answer.json.rates ELSE NoJSON,
                             from_currency, to_currency),
     calls |-> <<Call("GET https://open.er-api.com/v6/latest/{from_currency}",
                      [base |-> from_currency], answer)>>]

\* Defective variant: equal currencies are looked up like any other pair.
get_exchange_rate_always_fetching(from_currency, to_currency, answer) ==
    FetchRate(from_currency, to_currency, answer)

get_exchange_rate(from_currency, to_currency, answer) ==
    IF from_currency = to_currency THEN [out |-> Return([rate |-> 1]), calls |-> <<>>]
    ELSE FetchRate(from_currency, to_currency, answer)

\* Python's truth value of an environment string: None and "" are false.
Falsy(v) == v \in {"None", ""}

\* Lines 164-169.
GenerateContent(prompt, answer) ==
    [out |-> IF answer.exc # ""
             THEN HTTPException(500, <<"Failed to generate email content: ", answer.exc>>)
             ELSE Return([success |-> TRUE, emailContent |-> answer.text]),
     calls |-> <<Call("gemini-1.5-flash.generate_content", [prompt |-> prompt], answer)>>]

\* Defective variant: the model is called whether or not a key is set.
generate_gemini_email_unchecked(api_key, prompt, answer) == GenerateContent(prompt, answer)

generate_gemini_email(api_key, prompt, answer) ==
    IF Falsy(api_key)
    THEN [out |-> HTTPException(503, <<"Gemini AI client not configured on backend.">>),
          calls |-> <<>>]
    ELSE GenerateContent(prompt, answer)

(***************************************************************************)
(* FastAPI around the handlers: a body or query that does not fit the      *)
(* handler's declared parameters is answered 422 without running it; a     *)
(* returned value is sent as JSON with 200; an HTTPException becomes       *)
(* {detail: ...} with its status; any other exception becomes the plain    *)
(* 500 of the server-error middleware.  kind records which of these it was.*)
(***************************************************************************)

Respond(request, out, calls) ==
    [request |-> request, calls |-> calls, kind |-> out.kind,
     status_code |-> CASE out.kind = "return" -> 200
                       [] out.kind = "HTTPException" -> out.status_code
                       [] OTHER -> 500,
     media_type |-> IF out.kind = "exception" THEN "text/plain" ELSE "application/json",
     body |-> CASE out.kind = "return" -> out.value
                [] out.kind = "HTTPException" -> [detail |-> out.detail]
                [] OTHER -> "Internal Server Error"]

RequestValidationError(request) ==
    [request |-> request, calls |-> <<>>, kind |-> "RequestValidationError",
     status_code |-> 422,
     media_type |-> "application/json", body |-> [detail |-> <<request.fault>>]]

(***************************************************************************)
(* Inbound requests.  valid says whether FastAPI could bind the body or    *)
(* query to the handler's parameters (CartItem, OrderCaptureRequest,       *)
(* GeminiRequest, int, str).  A price is any str.                          *)
(***************************************************************************)

RootRequest == [route |-> "GET /", valid |-> TRUE]

Pages == {1, 2}
PageSizes == {1, 50}

ProductRequests ==
    {[route |-> "GET /api/products", valid |-> TRUE, page |-> pg, page_size |-> sz] :
        pg \in Pages, sz \in PageSizes}

CreateOrderRequests ==
    {[route |-> "POST /api/paypal/create-order", valid |-> TRUE, cart_items |-> c] :
        c \in CartInputs}

CaptureOrderRequests ==
    {[route |-> "POST /api/paypal/capture-order", valid |-> TRUE, order_id |-> "5O190127TN"]}

ConvertRequests ==
    {[route |-> "GET /api/convert-currency", valid |-> TRUE,
      from_currency |-> f, to_currency |-> t] : f \in Currencies, t \in Currencies}

GeminiRequests ==
    {[route |-> "POST /api/gemini/generate-email", valid |-> TRUE, prompt |-> "Write a welcome email"]}

\* Requests FastAPI cannot bind: every route but the root declares parameters.
InvalidRequests ==
    {[route |-> r, valid |-> FALSE, fault |-> f] :
        r \in {"GET /api/products", "POST /api/paypal/create-order",
               "POST /api/paypal/capture-order", "GET /api/convert-currency",
               "POST /api/gemini/generate-email"},
        f \in {"missing", "type_error"}}

(***************************************************************************)
(* State.  db and GEMINI_API_KEY are the module globals set while the      *)
(* module is imported.  pending holds the PayPal invocations that have     *)
(* their token and have not yet made their second call; response is the    *)
(* response sent last, with its request and the outbound calls made for    *)
(* it.                                                                     *)
(***************************************************************************)

VARIABLES db, GEMINI_API_KEY, pending, response

vars == <<db, GEMINI_API_KEY, pending, response>>

\* Invocations that can wait for PayPal at the same time: under Spec, where
\* every route is served, and under PayPalSpec, where only the PayPal routes are.
MaxPending == 1
MaxPayPalPending == 2

\* Lines 17-35: any failure of the Firebase set-up leaves db = None.
FirebaseInit(ok) == IF ok THEN "firestore.client" ELSE "None"

\* os.getenv: None when the variable is unset.
EnvValues == {"None", "AIzaSy-key"}

NoResponse ==
    [request |-> [route |-> "", valid |-> TRUE], calls |-> <<>>, kind |-> "",
     status_code |-> 0,
     media_type |-> "", body |-> ""]

Init ==
    /\ db \in {FirebaseInit(ok) : ok \in BOOLEAN}
    /\ GEMINI_API_KEY \in EnvValues
    /\ pending = EmptyBag
    /\ response = NoResponse

Config == <<db, GEMINI_API_KEY>>

ReadRoot ==
    /\ response' = Respond(RootRequest, read_root.out, read_root.calls)
    /\ UNCHANGED <<Config, pending>>

RejectInvalid ==
    \E request \in InvalidRequests :
        /\ response' = RequestValidationError(request)
        /\ UNCHANGED <<Config, pending>>

GetProducts ==
    \E request \in ProductRequests :
        \E answer \in StoreAnswers(request.page_size) :
            LET h == get_products(db, request.page, request.page_size, answer)
            IN  /\ response' = Respond(request, h.out, h.calls)
                /\ UNCHANGED <<Config, pending>>

\* Line 123 or 94: the handler's first step, the token acquisition.
AcquireToken(request, answer, cap) ==
    LET h == get_paypal_access_token(answer)
    IN  IF h.out.kind = "return"
        THEN /\ BagCardinality(pending) < cap
             /\ pending' = pending (+) SetToBag({[request |-> request,
                                                  access_token |-> h.out.value,
                                                  calls |-> h.calls]})
             /\ UNCHANGED <<Config, response>>
        ELSE /\ response' = Respond(request, h.out, h.calls)
             /\ UNCHANGED <<Config, pending>>

CreateOrderToken(cap) ==
    \E request \in CreateOrderRequests : \E answer \in TokenAnswers :
        AcquireToken(request, answer, cap)

CreateOrderPost ==
    \E p \in BagToSet(pending) : \E answer \in OrderAnswers :
        /\ p.request.route = "POST /api/paypal/create-order"
        /\ LET h == create_paypal_order(p.request.cart_items, p.access_token, answer)
           IN  response' = Respond(p.request, h.out, p.calls \o h.calls)
        /\ pending' = pending (-) SetToBag({p})
        /\ UNCHANGED Config

CaptureOrderToken(cap) ==
    \E request \in CaptureOrderRequests : \E answer \in TokenAnswers :
        AcquireToken(request, answer, cap)

CaptureOrderPost ==
    \E p \in BagToSet(pending) : \E answer \in CaptureAnswers :
        /\ p.request.route = "POST /api/paypal/capture-order"
        /\ LET h == capture_paypal_order(p.request.order_id, p.access_token, answer)
           IN  response' = Respond(p.request, h.out, p.calls \o h.calls)
        /\ pending' = pending (-) SetToBag({p})
        /\ UNCHANGED Config

ConvertCurrency ==
    \E request \in ConvertRequests : \E answer \in RateAnswers :
        LET h == get_exchange_rate(request.from_currency, request.to_currency, answer)
        IN  /\ response' = Respond(request, h.out, h.calls)
            /\ UNCHANGED <<Config, pending>>

GenerateEmail ==
    \E request \in GeminiRequests : \E answer \in GeminiAnswers :
        LET h == generate_gemini_email(GEMINI_API_KEY, request.prompt, answer)
        IN  /\ response' = Respond(request, h.out, h.calls)
            /\ UNCHANGED <<Config, pending>>

Next ==
    \/ ReadRoot
    \/ GetProducts
    \/ CreateOrderToken(MaxPending)
    \/ CreateOrderPost
    \/ CaptureOrderToken(MaxPending)
    \/ CaptureOrderPost
    \/ ConvertCurrency
    \/ GenerateEmail
    \/ RejectInvalid

Spec == Init /\ [][Next]_vars

\* The PayPal routes alone, with more invocations in flight.
PayPalNext ==
    \/ CreateOrderToken(MaxPayPalPending)
    \/ CreateOrderPost
    \/ CaptureOrderToken(MaxPayPalPending)
    \/ CaptureOrderPost

\* The PayPal handlers read neither db nor GEMINI_API_KEY.
PayPalInit == Init /\ db = FirebaseInit(TRUE) /\ GEMINI_API_KEY = "AIzaSy-key"

PayPalSpec == PayPalInit /\ [][PayPalNext]_vars

(***************************************************************************)
(* Properties.  Each is read off response, the response sent last together *)
(* with its request and the outbound calls made for it: every response the *)
(* server sends passes through that variable.                              *)
(***************************************************************************)

TokenApi == "POST /v1/oauth2/token"
CreateApi == "POST /v2/checkout/orders"
CaptureApi == "POST /v2/checkout/orders/{order_id}/capture"
RatesApi == "GET https://open.er-api.com/v6/latest/{from_currency}"

HttpApis == {TokenApi, CreateApi, CaptureApi, RatesApi}

CreateRoute == "POST /api/paypal/create-order"
CaptureRoute == "POST /api/paypal/capture-order"
ProductsRoute == "GET /api/products"
ConvertRoute == "GET /api/convert-currency"
GeminiRoute == "POST /api/gemini/generate-email"

\* A handler ran for the response sent last.
Handled(route) == response.request.route = route /\ response.request.valid

CallsTo(calls, api) == {i \in DOMAIN calls : calls[i].api = api}

\* The response is {detail: ...} and the detail contains text.
DetailContains(text) ==
    /\ response.kind = "HTTPException"
    /\ \E j \in DOMAIN response.body.detail : response.body.detail[j] = text

\* The provider answered the HTTP call, with a status in lo..hi.
Answered(call, lo, hi) ==
    /\ call.api \in HttpApis
    /\ call.answer.exc = ""
    /\ call.answer.status_code \in lo..hi

FailedCall(call) ==
    IF call.api \in HttpApis
    THEN \/ call.answer.exc # ""
         \/ call.answer.status_code \notin 200..299
         \/ ~call.answer.json_valid
         \/ call.api = TokenApi /\ "access_token" \notin DOMAIN call.answer.json
    ELSE call.answer.exc # ""

\* C2: whatever way an outbound call fails, the failure is caught in the
\* handler and answered with a {detail: message} JSON body; no failure of an
\* external call leaves the handler as an uncaught exception.
C2_EveryFailureBecomesDetail ==
    (\E i \in DOMAIN response.calls : FailedCall(response.calls[i]))
        => /\ response.kind = "HTTPException"
           /\ response.media_type = "application/json"
           /\ DOMAIN response.body = {"detail"}

PayPalRoutes == {CreateRoute, CaptureRoute}

SecondApi(route) == IF route = CreateRoute THEN CreateApi ELSE CaptureApi

\* C3, as claimed: every invocation of create-order and of capture-order
\* makes exactly one token acquisition and exactly one order/capture call.
C3_ExactlyOneOfEach ==
    (response.request.route \in PayPalRoutes /\ response.request.valid)
        => /\ Cardinality(CallsTo(response.calls, TokenApi)) = 1
           /\ Cardinality(CallsTo(response.calls, SecondApi(response.request.route))) = 1

PriceParses(price) == ScanDecimal(price, 1, 0, 0, FALSE, 0).ok

\* The token call returned a token.
YieldedToken(call) ==
    /\ call.api = TokenApi
    /\ call.answer.exc = ""
    /\ call.answer.status_code < 400
    /\ call.answer.json_valid
    /\ "access_token" \in DOMAIN call.answer.json

\* The invocation gets as far as its second call.
ReachesSecondCall(request, tokenCall) ==
    /\ YieldedToken(tokenCall)
    /\ request.route = CreateRoute
        => \A k \in DOMAIN request.cart_items : PriceParses(request.cart_items[k].price)

\* C3, amended: every invocation of create-order and of capture-order makes
\* exactly one token acquisition, first, and at most one order/capture call:
\* exactly one when the acquisition yielded a token (and, for create-order,
\* float() accepted every price), none otherwise.  That call carries the
\* token acquired in the same invocation, and neither call is repeated.
C3_OneTokenThenAtMostOneCall ==
    /\ (response.request.route \in PayPalRoutes /\ response.request.valid)
        => /\ Len(response.calls) \in {1, 2}
           /\ response.calls[1].api = TokenApi
           /\ (Len(response.calls) = 2)
                  <=> ReachesSecondCall(response.request, response.calls[1])
           /\ Len(response.calls) = 2
                  => /\ response.calls[2].api = SecondApi(response.request.route)
                     /\ response.calls[2].args.access_token
                            = response.calls[1].answer.json.access_token
    /\ \A p \in BagToSet(pending) :
           /\ Len(p.calls) = 1
           /\ YieldedToken(p.calls[1])
           /\ p.access_token = p.calls[1].answer.json.access_token

\* An invocation completed both calls while another, holding a different
\* token, was still waiting.
C3_Witness ==
    /\ response.request.route \in PayPalRoutes
    /\ Len(response.calls) = 2
    /\ \E p \in BagToSet(pending) :
           p.access_token # response.calls[2].args.access_token

\* C4: a convert-currency request with from_currency = to_currency makes no
\* outbound call and returns the rate 1, whatever the currency.
C4_SameCurrencyNoCallRateOne ==
    (Handled(ConvertRoute)
        /\ response.request.from_currency = response.request.to_currency)
        => /\ response.calls = <<>>
           /\ response.status_code = 200
           /\ response.body.rate = 1

C4_Witness ==
    /\ Handled(ConvertRoute)
    /\ response.request.from_currency = "EUR"
    /\ response.request.to_currency = "EUR"
    /\ response.status_code = 200

\* C5: with GEMINI_API_KEY absent at start-up, every generate-email request
\* is answered 503 and no call to the model is attempted.
C5_NoKeyGives503NoCall ==
    (GEMINI_API_KEY = "None" /\ Handled(GeminiRoute))
        => /\ response.status_code = 503
           /\ response.calls = <<>>

\* Answered 503 while a PayPal invocation was in flight.
C5_Witness ==
    /\ GEMINI_API_KEY = "None"
    /\ Handled(GeminiRoute)
    /\ response.status_code = 503
    /\ pending # EmptyBag

\* What C6 says of a products response.
OneOrderedPage ==
    /\ Len(response.calls) = 1
    /\ response.calls[1].api = "firestore.query"
    /\ response.calls[1].args =
           [collection |-> "products", order_by |-> "name",
            limit |-> response.request.page_size,
            offset |-> (response.request.page - 1) * response.request.page_size]
    /\ (response.calls[1].answer.exc = "" /\ response.calls[1].answer.docs = <<>>)
           => (response.status_code = 200 /\ response.kind = "return"
                  /\ Len(response.body) = 0)

\* C6, as claimed: for page >= 1 and page_size >= 1, listing products makes
\* exactly one query on the products collection, ordered by name, with limit
\* page_size and offset (page-1)*page_size; an empty result gives [] and 200.
C6_OneQueryPerListing ==
    (Handled(ProductsRoute) /\ response.request.page >= 1
        /\ response.request.page_size >= 1)
        => OneOrderedPage

\* C6, amended: the same, when the store connection was established at
\* start-up.
C6_OneQueryWhenConnected ==
    (Handled(ProductsRoute) /\ response.request.page >= 1
        /\ response.request.page_size >= 1 /\ db # "None")
        => OneOrderedPage

\* Page 2 of size 50 of an empty collection.
C6_Witness ==
    /\ Handled(ProductsRoute)
    /\ response.request.page = 2
    /\ response.request.page_size = 50
    /\ Len(response.calls) = 1
    /\ response.calls[1].args.offset = 50
    /\ response.calls[1].answer.exc = ""
    /\ response.status_code = 200
    /\ Len(response.body) = 0

RECURSIVE ExactTotal(_)
\* The cart's total in decimal arithmetic, in ten-thousandths.
ExactTotal(cart_items) ==
    IF cart_items = <<>> THEN 0
    ELSE LET item == Head(cart_items)
             d    == ScanDecimal(item.price, 1, 0, 0, FALSE, 0)
         IN  d.n * (10 ^ (4 - d.scale)) * item.quantity + ExactTotal(Tail(cart_items))

\* Ten-thousandths to cents, to nearest, ties to even (2.675 gives 268, as
\* rounding half up does).
RoundToCents(t) ==
    LET q == t \div 100
        r == t % 100
    IN  IF r > 50 \/ (r = 50 /\ q % 2 = 1) THEN q + 1 ELSE q

\* C7: the amount sent to PayPal by create-order is the sum over the lines
\* of price times quantity, written with two decimals, in USD.
C7_AmountIsExactTotal ==
    \A i \in CallsTo(response.calls, CreateApi) :
        /\ response.calls[i].args.currency_code = "USD"
        /\ response.calls[i].args.value
               = CentsText(RoundToCents(ExactTotal(response.request.cart_items)))

\* C8: from # to and the provider answers 2xx with a JSON body: 404 when its
\* rate table lacks to_currency, else {from, to, rate} with the table's entry.
C8_MissingRateIs404 ==
    (Handled(ConvertRoute)
        /\ response.request.from_currency # response.request.to_currency
        /\ Len(response.calls) = 1
        /\ Answered(response.calls[1], 200, 299)
        /\ response.calls[1].answer.json_valid)
        => LET json  == response.calls[1].answer.json
               table == IF "rates" \in DOMAIN json THEN json.rates ELSE NoJSON
               to    == response.request.to_currency
           IN  IF to \notin DOMAIN table
               THEN response.status_code = 404 /\ response.kind = "HTTPException"
               ELSE /\ response.status_code = 200
                    /\ response.body = [from |-> response.request.from_currency,
                                        to |-> to, rate |-> table[to]]

\* The table lists USD only and EUR was asked for.
C8_Witness ==
    /\ Handled(ConvertRoute)
    /\ response.request.to_currency = "EUR"
    /\ Len(response.calls) = 1
    /\ Answered(response.calls[1], 200, 299)
    /\ response.calls[1].answer.json_valid
    /\ "rates" \in DOMAIN response.calls[1].answer.json
    /\ DOMAIN response.calls[1].answer.json.rates = {"USD"}
    /\ response.status_code = 404

\* Every outbound call of the response was answered 2xx with JSON, or
\* without an exception.
AllCallsSucceeded ==
    \A i \in DOMAIN response.calls :
        LET call == response.calls[i]
        IN  IF call.api \in HttpApis
            THEN Answered(call, 200, 299) /\ call.answer.json_valid
            ELSE call.answer.exc = ""

\* The conversion needs no lookup, or the provider's table lists the target.
RateListed ==
    \/ response.calls = <<>>
    \/ /\ "rates" \in DOMAIN response.calls[1].answer.json
       /\ response.request.to_currency \in DOMAIN response.calls[1].answer.json.rates

\* C9: when the store failed to initialise, the server still serves: every
\* products request gets 500 "Database not connected" and no query is made,
\* and the other routes work as with a connected store: the root reports
\* liveness, and a payment, conversion or generation whose provider calls
\* succeed is answered 200.
C9_StoreDownDegradesProductsOnly ==
    db = "None"
        => /\ Handled(ProductsRoute)
               => /\ response.status_code = 500
                  /\ response.kind = "HTTPException"
                  /\ response.body.detail = <<"Database not connected">>
                  /\ response.calls = <<>>
           /\ response.request.route = "GET /"
               => /\ response.status_code = 200
                  /\ response.body = [message |-> "Server is running"]
           /\ (response.request.route \in PayPalRoutes /\ response.request.valid
                  /\ Len(response.calls) = 2 /\ AllCallsSucceeded)
               => /\ response.status_code = 200
                  /\ response.body = response.calls[2].answer.json
           /\ (Handled(ConvertRoute) /\ AllCallsSucceeded /\ RateListed)
               => response.status_code = 200
           /\ (Handled(GeminiRoute) /\ ~Falsy(GEMINI_API_KEY) /\ AllCallsSucceeded)
               => /\ response.status_code = 200
                  /\ response.body.success

\* The store is down, a products request was refused, and a payment is in
\* flight.
C9_Witness ==
    /\ db = "None"
    /\ Handled(ProductsRoute)
    /\ response.status_code = 500
    /\ response.calls = <<>>
    /\ pending # EmptyBag

\* The request is malformed: FastAPI cannot bind it, or a cart line's price
\* is not a decimal.
Malformed(request) ==
    \/ ~request.valid
    \/ /\ request.route = CreateRoute
       /\ \E k \in DOMAIN request.cart_items : ~PriceParses(request.cart_items[k].price)

\* C10: a malformed request is answered 400 before any provider call or
\* catalog query is made for it.
C10_MalformedIs400BeforeAnyCall ==
    (response.kind # "" /\ Malformed(response.request))
        => /\ response.status_code = 400
           /\ response.calls = <<>>

====
